---------------------------- MODULE Spec2Model ----------------------------
(***************************************************************************)
(* A model of seq.py (the Op function factories and the lazy Seq wrapper)  *)
(* and of day1.py (the walk that folds over a Seq).                        *)
(*                                                                         *)
(* A Seq holds one Python iterable.  The iterable is modelled as a linear  *)
(* chain of objects: chain[1] is the root source handed to Seq(...), and   *)
(* chain[k] (k > 1) is an iterator object that pulls from chain[k-1].      *)
(* Every Seq method is one action; what a method does to the chain at call *)
(* time and what a later pull does are both taken from the code.           *)
(***************************************************************************)
EXTENDS Integers, Sequences, FiniteSets, TLC

(***************************************************************************)
(* Bounds of the model.                                                    *)
(***************************************************************************)
MaxLen == 3      \* longest source list
MaxVal == 2      \* source elements are the integers 0..MaxVal
MaxStages == 2   \* transformations chained on one Seq
MaxCalls == 3    \* terminal calls made on one Seq

(***************************************************************************)
(* Python values.  Every value is a record tagged with its type, so that   *)
(* values of different types can be told apart.                            *)
(***************************************************************************)
I(n) == [ty |-> "int", n |-> n]
B(b) == [ty |-> "bool", b |-> b]
None == [ty |-> "None"]
T(items) == [ty |-> "tuple", items |-> items]

\* A string is the sequence of its characters.
Str(chars) == [ty |-> "str", s |-> chars]

DigitChars == <<"0", "1", "2", "3", "4", "5", "6", "7", "8", "9">>

\* int(s) of a string of decimal digits
RECURSIVE ParseInt(_)
ParseInt(chars) ==
    IF chars = <<>> THEN 0
    ELSE LET last == chars[Len(chars)]
             digit == CHOOSE d \in 0..9 : DigitChars[d + 1] = last
         IN 10 * ParseInt(SubSeq(chars, 1, Len(chars) - 1)) + digit

\* s.split(sep) for the two-character separator ", "
RECURSIVE Split(_)
Split(chars) ==
    LET at == {i \in 1..(Len(chars) - 1) : chars[i] = "," /\ chars[i + 1] = " "}
    IN IF at = {} THEN <<Str(chars)>>
       ELSE LET i == CHOOSE j \in at : \A k \in at : j <= k IN
            <<Str(SubSeq(chars, 1, i - 1))>>
                \o Split(SubSeq(chars, i + 2, Len(chars)))

\* bool(v): Python truth value testing, as filter(), any() and all() use it.
Truthy(v) ==
    CASE v.ty = "None" -> FALSE
      [] v.ty = "bool" -> v.b
      [] v.ty = "int" -> v.n # 0
      [] v.ty = "tuple" -> Len(v.items) > 0
      [] OTHER -> TRUE

\* The functions a caller hands to Seq, by name.  "identity" and
\* "is_not_none" are Op.identity and Op.is_not_none; the others stand for
\* lambdas of the caller.
Apply(fn, v) ==
    CASE fn = "identity" -> v
      [] fn = "is_not_none" -> B(v.ty # "None")
      [] fn = "inc" -> I(v.n + 1)
      [] fn = "mod2" -> I(v.n % 2)
      [] fn = "const" -> I(0)
      [] fn = "neg" -> I(0 - v.n)
      [] fn = "ge1" -> B(v.n >= 1)
      [] fn = "ge2" -> B(v.n >= 2)
      [] fn = "lt2" -> B(v.n < 2)
      [] fn = "even" -> B(v.n % 2 = 0)
      [] fn = "never" -> B(FALSE)
      [] fn = "item0" -> v.items[1]
      \* day1: lambda arg: (arg[0], int(arg[1:]))
      [] fn = "instruction" ->
            T(<<Str(<<v.s[1]>>), I(ParseInt(SubSeq(v.s, 2, Len(v.s))))>>)

\* The binary functions a caller hands to the folds.
Apply2(fn, a, b) ==
    CASE fn = "add" -> I(a.n + b.n)
      [] fn = "sub" -> I(a.n - b.n)
      [] fn = "lhs" -> a
      [] fn = "rhs" -> b


(***************************************************************************)
(* The objects of a chain.  A "list" is a repeatable container; everything *)
(* else is a single-pass iterator with its own position.  root marks the   *)
(* iterators that hand out the elements of the root source.                *)
(***************************************************************************)
ListObj(items) == [op |-> "list", items |-> items]
ListIter(items, root) ==
    [op |-> "list_iterator", items |-> items, pos |-> 0, root |-> root]
CountObj(start, step) == [op |-> "count", n |-> start, step |-> step]
MapObj(fn) == [op |-> "map", fn |-> fn]
FilterObj(fn) == [op |-> "filter", fn |-> fn]
\* itertools.islice(it, start, stop, step); stop = -1 stands for None.
ISliceObj(start, stop, step) ==
    [op |-> "islice", nxt |-> start, stop |-> stop, step |-> step,
     cnt |-> 0, live |-> TRUE]
TakeWhileObj(fn) == [op |-> "takewhile", fn |-> fn, stop |-> FALSE]
EnumerateObj(start) == [op |-> "enumerate", n |-> start]
ChainObj(other) == [op |-> "chain", other |-> other, pos |-> 0, first |-> TRUE]
ZipObj(other) == [op |-> "zip", other |-> other, pos |-> 0]
DistinctObj == [op |-> "distinct", items |-> {}, finished |-> FALSE]
ReversedObj(items) == [op |-> "reversed", items |-> items, idx |-> Len(items)]
ZipColsObj(cols) == [op |-> "zip_cols", cols |-> cols, pos |-> 0]
CycleObj == [op |-> "cycle", saved |-> <<>>, idx |-> 0, live |-> TRUE]
\* itertools.groupby(it, key) under starmap(selector); fn = "" when the
\* group_by call gave no function.
GroupByObj(key, fn) ==
    [op |-> "groupby", key |-> key, fn |-> fn,
     hasTgt |-> FALSE, tgtkey |-> None, hasKey |-> FALSE, currkey |-> None,
     hasVal |-> FALSE, currvalue |-> None, currgrouper |-> 0, made |-> 0]
\* The Seq wrapped round one group's iterator: the grouper made by the
\* groupby object at chain position at, with its target key.
GroupSeq(at, gid, tgtkey, fn) ==
    [ty |-> "Seq", at |-> at, gid |-> gid, tgtkey |-> tgtkey, fn |-> fn]

Top(c) == c[Len(c)]

\* Mutant of Iter: every iter() starts again at the first element, also on
\* an iterator over a list.
IterRestarts(c) ==
    IF Top(c).op = "list"
    THEN Append(c, ListIter(Top(c).items, Len(c) = 1))
    ELSE IF Top(c).op = "list_iterator" THEN [c EXCEPT ![Len(c)].pos = 0]
    ELSE c

\* iter(obj) of the iterable on top of the chain: a list makes a new
\* iterator at its first element, an iterator returns itself.
Iter(c) ==
    IF Top(c).op = "list"
    THEN Append(c, ListIter(Top(c).items, Len(c) = 1))
    ELSE c

(***************************************************************************)
(* next(chain[k]).  The result holds the chain after the pull, the number  *)
(* n of elements the root source handed out, the values ev that functions  *)
(* of the caller were applied to, and either ok and the value v, or ~ok    *)
(* for StopIteration.                                                      *)
(***************************************************************************)
Stop(c) == [c |-> c, n |-> 0, ev |-> <<>>, ok |-> FALSE, v |-> None]
Yield(c, n, v) == [c |-> c, n |-> n, ev |-> <<>>, ok |-> TRUE, v |-> v]
\* r2 happened after r
After(r, r2) == [r2 EXCEPT !.n = r.n + r2.n, !.ev = r.ev \o r2.ev]
Eval(r, x) == [r EXCEPT !.ev = Append(r.ev, x)]

\* groupby_step on the groupby object chain[k], where r is the outcome of
\* next() on its source: keep the element and compute its key
GroupByStep(c, k, r) ==
    IF ~r.ok THEN r
    ELSE Eval([r EXCEPT !.c[k].hasVal = TRUE, !.c[k].currvalue = r.v,
                        !.c[k].hasKey = TRUE,
                        !.c[k].currkey = Apply(c[k].key, r.v)], r.v)

RECURSIVE PullAt(_, _)
PullAt(c, k) ==
    LET o == c[k] IN
    CASE o.op = "list_iterator" ->
            IF o.pos < Len(o.items)
            THEN Yield([c EXCEPT ![k].pos = @ + 1],
                       IF o.root THEN 1 ELSE 0, o.items[o.pos + 1])
            ELSE Stop(c)
      [] o.op = "count" ->
            Yield([c EXCEPT ![k].n = @ + o.step], 1, I(o.n))
      [] o.op = "map" ->
            LET r == PullAt(c, k - 1) IN
            IF r.ok THEN Eval([r EXCEPT !.v = Apply(o.fn, r.v)], r.v) ELSE r
      [] o.op = "filter" ->
            LET r == PullAt(c, k - 1) IN
            IF ~r.ok THEN r
            ELSE IF Truthy(Apply(o.fn, r.v)) THEN Eval(r, r.v)
            ELSE After(Eval(r, r.v), PullAt(r.c, k))
      [] o.op = "islice" ->
            IF ~o.live THEN Stop(c)
            ELSE IF o.cnt < o.nxt
            THEN LET r == PullAt(c, k - 1) IN
                 IF ~r.ok THEN [r EXCEPT !.c[k].live = FALSE]
                 ELSE After(r, PullAt([r.c EXCEPT ![k].cnt = @ + 1], k))
            ELSE IF o.stop # -1 /\ o.cnt >= o.stop
            THEN Stop([c EXCEPT ![k].live = FALSE])
            ELSE LET r == PullAt(c, k - 1)
                     nx == o.nxt + o.step
                 IN IF ~r.ok THEN [r EXCEPT !.c[k].live = FALSE]
                    ELSE [r EXCEPT !.c[k].cnt = @ + 1,
                                   !.c[k].nxt = IF o.stop # -1 /\ nx > o.stop
                                                THEN o.stop ELSE nx]
      [] o.op = "takewhile" ->
            IF o.stop THEN Stop(c)
            ELSE LET r == PullAt(c, k - 1) IN
                 IF ~r.ok THEN r
                 ELSE IF Truthy(Apply(o.fn, r.v)) THEN Eval(r, r.v)
                 ELSE Eval([r EXCEPT !.c[k].stop = TRUE, !.ok = FALSE,
                                     !.v = None], r.v)
      [] o.op = "enumerate" ->
            LET r == PullAt(c, k - 1) IN
            IF r.ok THEN [r EXCEPT !.c[k].n = @ + 1, !.v = T(<<I(o.n), r.v>>)]
            ELSE r
      [] o.op = "chain" ->
            LET r == IF o.first THEN PullAt(c, k - 1) ELSE Stop(c) IN
            IF r.ok THEN r
            ELSE IF o.pos < Len(o.other)
            THEN [r EXCEPT !.c[k].first = FALSE, !.c[k].pos = @ + 1,
                           !.ok = TRUE, !.v = o.other[o.pos + 1]]
            ELSE [r EXCEPT !.c[k].first = FALSE]
      [] o.op = "zip" ->
            LET r == PullAt(c, k - 1) IN
            IF ~r.ok THEN r
            ELSE IF o.pos < Len(o.other)
            THEN [r EXCEPT !.c[k].pos = @ + 1,
                           !.v = T(<<r.v, o.other[o.pos + 1]>>)]
            ELSE [r EXCEPT !.ok = FALSE, !.v = None]
      [] o.op = "distinct" ->
            IF o.finished THEN Stop(c)
            ELSE LET r == PullAt(c, k - 1) IN
                 IF ~r.ok THEN [r EXCEPT !.c[k].finished = TRUE]
                 ELSE IF r.v \notin o.items
                 THEN [r EXCEPT !.c[k].items = @ \cup {r.v}]
                 ELSE After(r, PullAt(r.c, k))
      [] o.op = "reversed" ->
            IF o.idx > 0
            THEN Yield([c EXCEPT ![k].idx = @ - 1], 0, o.items[o.idx])
            ELSE Stop(c)
      [] o.op = "zip_cols" ->
            IF Len(o.cols) > 0
               /\ \A i \in 1..Len(o.cols) : o.pos < Len(o.cols[i].items)
            THEN Yield([c EXCEPT ![k].pos = @ + 1], 0,
                       T([i \in 1..Len(o.cols) |-> o.cols[i].items[o.pos + 1]]))
            ELSE Stop(c)
      [] o.op = "cycle" ->
            LET r == IF o.live THEN PullAt(c, k - 1) ELSE Stop(c) IN
            IF r.ok THEN [r EXCEPT !.c[k].saved = Append(@, r.v)]
            ELSE IF Len(o.saved) = 0 THEN [r EXCEPT !.c[k].live = FALSE]
            ELSE [r EXCEPT !.c[k].live = FALSE,
                           !.c[k].idx = (o.idx + 1) % Len(o.saved),
                           !.ok = TRUE, !.v = o.saved[o.idx + 1]]
      [] o.op = "groupby" ->
            \* groupby_next: skip to the next run, then make its grouper
            IF o.hasKey /\ (~o.hasTgt \/ o.tgtkey # o.currkey)
            THEN LET gid == o.made + 1 IN
                 Yield([c EXCEPT ![k].hasTgt = TRUE, ![k].tgtkey = o.currkey,
                                 ![k].currgrouper = gid, ![k].made = gid],
                       0,
                       T(<<o.currkey, GroupSeq(k, gid, o.currkey, o.fn)>>))
            ELSE LET c0 == [c EXCEPT ![k].currgrouper = 0]
                     r == GroupByStep(c0, k, PullAt(c0, k - 1))
                 IN IF ~r.ok THEN r ELSE After(r, PullAt(r.c, k))

\* Mutant of GrouperNext: the grouper does not ask whether it is still the
\* current grouper of its groupby object.
GrouperNextUnguarded(c, g) ==
    LET o == c[g.at]
        r == IF o.hasVal THEN Stop(c)
             ELSE GroupByStep(c, g.at, PullAt(c, g.at - 1))
        p == r.c[g.at]
    IN IF ~p.hasVal THEN [r EXCEPT !.ok = FALSE, !.v = None]
       ELSE IF g.tgtkey # p.currkey THEN [r EXCEPT !.ok = FALSE, !.v = None]
       ELSE [r EXCEPT !.c[g.at].hasVal = FALSE, !.ok = TRUE,
                      !.v = IF g.fn = "" THEN p.currvalue
                            ELSE Apply(g.fn, p.currvalue)]

\* next() of the iterable inside a group's Seq: _grouper_next, under map
\* when group_by was given a function.
GrouperNext(c, g) ==
    LET o == c[g.at] IN
    IF o.currgrouper # g.gid THEN Stop(c)
    ELSE LET r == IF o.hasVal THEN Stop(c)
                  ELSE GroupByStep(c, g.at, PullAt(c, g.at - 1))
             p == r.c[g.at]
         IN IF ~p.hasVal THEN [r EXCEPT !.ok = FALSE, !.v = None]
            ELSE IF g.tgtkey # p.currkey THEN [r EXCEPT !.ok = FALSE, !.v = None]
            ELSE [r EXCEPT !.c[g.at].hasVal = FALSE, !.ok = TRUE,
                           !.v = IF g.fn = "" THEN p.currvalue
                                 ELSE Apply(g.fn, p.currvalue)]

\* list(chain[k]): pull until StopIteration
RECURSIVE Drain(_, _)
Drain(c, k) ==
    LET r == PullAt(c, k) IN
    IF ~r.ok THEN [c |-> r.c, n |-> r.n, ev |-> r.ev, items |-> <<>>]
    ELSE LET d == Drain(r.c, k) IN
         [c |-> d.c, n |-> r.n + d.n, ev |-> r.ev \o d.ev,
          items |-> <<r.v>> \o d.items]

RECURSIVE GrouperDrain(_, _)
GrouperDrain(c, g) ==
    LET r == GrouperNext(c, g) IN
    IF ~r.ok THEN [c |-> r.c, n |-> r.n, ev |-> r.ev, items |-> <<>>]
    ELSE LET d == GrouperDrain(r.c, g) IN
         [c |-> d.c, n |-> r.n + d.n, ev |-> r.ev \o d.ev,
          items |-> <<r.v>> \o d.items]


(***************************************************************************)
(* Pure helpers of the library.                                            *)
(***************************************************************************)
\* Mutant of compare_and_choose: the comparison is strict, so that a tie
\* chooses the right-hand item.
compare_and_choose_strict(compare, key) ==
    [f |-> "inner", compare |-> IF compare = "le" THEN "lt" ELSE "gt",
     key |-> key]

\* The closure Op.compare_and_choose(compare, key) returns.
compare_and_choose(compare, key) ==
    [f |-> "inner", compare |-> compare, key |-> key]

\* A binary function of the caller, or one Op makes.
Fn2(name) == [f |-> name, compare |-> "", key |-> ""]

\* A call of a binary function value: Op.lhs, Op.rhs, the inner function of
\* compare_and_choose, or a function of the caller.
Call2(fn, a, b) ==
    CASE fn.f = "lhs" -> a
      [] fn.f = "rhs" -> b
      [] fn.f = "inner" ->
            LET ka == Apply(fn.key, a).n
                kb == Apply(fn.key, b).n
                holds == CASE fn.compare = "le" -> ka <= kb
                           [] fn.compare = "ge" -> ka >= kb
                           [] fn.compare = "lt" -> ka < kb
                           [] fn.compare = "gt" -> ka > kb
            IN IF holds THEN a ELSE b
      [] OTHER -> Apply2(fn.f, a, b)

\* functools.reduce(fn, items, acc) over the items already pulled
RECURSIVE Reduce(_, _, _)
Reduce(fn, acc, items) ==
    IF items = <<>> THEN acc
    ELSE Reduce(fn, Call2(fn, acc, Head(items)), Tail(items))

\* sorted(items, key=key, reverse=reverse): stable; key = "" for None.
SortKey(key, v) == IF key = "" THEN v.n ELSE Apply(key, v).n
RECURSIVE Insert(_, _, _, _)
Insert(s, x, key, reverse) ==
    IF s = <<>> THEN <<x>>
    ELSE LET before == IF reverse
                       THEN SortKey(key, x) > SortKey(key, Head(s))
                       ELSE SortKey(key, x) < SortKey(key, Head(s))
         IN IF before THEN <<x>> \o s
            ELSE <<Head(s)>> \o Insert(Tail(s), x, key, reverse)
RECURSIVE Sorted(_, _, _)
Sorted(items, key, reverse) ==
    IF items = <<>> THEN <<>>
    ELSE Insert(Sorted(SubSeq(items, 1, Len(items) - 1), key, reverse),
                items[Len(items)], key, reverse)

(***************************************************************************)
(* The state.                                                              *)
(***************************************************************************)
VARIABLES
    chain,      \* the iterable of the Seq in hand, root source first
    isSeq,      \* whether the object in hand is a Seq
    pulled,     \* elements the root source has handed out so far
    built,      \* the transformation calls made so far: <<name, arguments>>
    hist,       \* the terminal calls completed so far, with their results
    err,        \* the error a transformation call raised, "" for none
    groups,     \* the groups a caller's loop over group_by has been given
    outerDone,  \* whether that loop has reached the end of the sequence
    pc,         \* day1: the statement it is at
    data,       \* day1: its argument, a string
    plan,       \* day1: the instructions the argument was written from
    instructions,   \* day1: the parsed instructions
    state,      \* day1: the (position, orientation) the fold has reached
    distance    \* day1: the distance printed, -1 before

libvars == <<chain, isSeq, pulled, built, hist, err>>
callervars ==
    <<groups, outerDone, pc, data, plan, instructions, state, distance>>
vars ==
    <<chain, isSeq, pulled, built, hist, err,
      groups, outerDone, pc, data, plan, instructions, state, distance>>

\* The integer lists of length at most n
RECURSIVE ListsUpTo(_, _)
ListsUpTo(S, n) ==
    IF n = 0 THEN {<<>>}
    ELSE LET shorter == ListsUpTo(S, n - 1) IN
         shorter \cup {Append(l, x) : l \in shorter, x \in S}

Ints == {I(n) : n \in 0..MaxVal}
IntLists == ListsUpTo(Ints, MaxLen)

\* The root sources: a list (repeatable) or an iterator over one
\* (single-pass).
ListSource(items) == <<ListObj(items)>>
IterSource(items) == <<ListIter(items, TRUE)>>
Sources == {ListSource(l) : l \in IntLists} \cup {IterSource(l) : l \in IntLists}

\* Whether the elements in hand are still the integers of the source
IntElems(c) ==
    \A k \in 1..Len(c) :
        c[k].op \notin {"enumerate", "zip", "groupby", "zip_cols"}

InitLib(srcs) ==
    /\ chain \in srcs
    /\ isSeq = TRUE
    /\ pulled = 0
    /\ built = <<>>
    /\ hist = <<>>
    /\ err = ""
    /\ groups = <<>>
    /\ outerDone = FALSE
    /\ pc = "library"
    /\ data = <<>>
    /\ plan = <<>>
    /\ instructions = <<>>
    /\ state = <<>>
    /\ distance = -1

(***************************************************************************)
(* Transformations: Seq methods that return a Seq.  Calling a method on    *)
(* an object that is no Seq raises AttributeError.                         *)
(***************************************************************************)
Building == err = "" /\ hist = <<>> /\ groups = <<>> /\ Len(built) < MaxStages

Raise(e) ==
    /\ err' = e
    /\ UNCHANGED <<chain, isSeq, pulled, built, hist, callervars>>

\* return Seq(<iterator over self._iterable>)
Return(call, c, n) ==
    /\ chain' = c
    /\ pulled' = pulled + n
    /\ built' = Append(built, call)
    /\ UNCHANGED <<isSeq, hist, err, callervars>>

Wrap(call, obj) == Return(call, Append(Iter(chain), obj), 0)

\* The names of the transformations called so far
Called == [i \in 1..Len(built) |-> built[i][1]]

map(fn) ==
    /\ Building /\ IntElems(chain)
    /\ IF isSeq THEN Wrap(<<"map", fn>>, MapObj(fn)) ELSE Raise("AttributeError")

filter(fn) ==
    /\ Building /\ IntElems(chain)
    /\ IF isSeq THEN Wrap(<<"filter", fn>>, FilterObj(fn)) ELSE Raise("AttributeError")

slice(start, stop, step) ==
    /\ Building
    /\ IF isSeq
       THEN Wrap(<<"slice", start, stop, step>>, ISliceObj(start, stop, step))
       ELSE Raise("AttributeError")

drop(count) ==
    /\ Building
    /\ IF isSeq THEN Wrap(<<"drop", count>>, ISliceObj(count, -1, 1))
       ELSE Raise("AttributeError")

take(count) ==
    /\ Building
    /\ IF isSeq THEN Wrap(<<"take", count>>, ISliceObj(0, count, 1))
       ELSE Raise("AttributeError")

take_while(fn) ==
    /\ Building /\ IntElems(chain)
    /\ IF isSeq THEN Wrap(<<"take_while", fn>>, TakeWhileObj(fn))
       ELSE Raise("AttributeError")

\* Mutant of group_by: the key function is not handed to groupby
group_by_no_key(key, fn) ==
    /\ Building /\ IntElems(chain)
    /\ IF isSeq THEN Wrap(<<"group_by", key, fn>>, GroupByObj("identity", fn))
       ELSE Raise("AttributeError")

group_by(key, fn) ==
    /\ Building /\ IntElems(chain)
    /\ IF isSeq THEN Wrap(<<"group_by", key, fn>>, GroupByObj(key, fn))
       ELSE Raise("AttributeError")

zip(other) ==
    /\ Building
    /\ IF isSeq THEN Wrap(<<"zip", other>>, ZipObj(other)) ELSE Raise("AttributeError")

concat(other) ==
    /\ Building
    /\ IF isSeq THEN Wrap(<<"concat", other>>, ChainObj(other)) ELSE Raise("AttributeError")

enumerate(start) ==
    /\ Building
    /\ IF isSeq THEN Wrap(<<"enumerate", start>>, EnumerateObj(start))
       ELSE Raise("AttributeError")

distinct ==
    /\ Building
    /\ IF isSeq THEN Wrap(<<"distinct">>, DistinctObj) ELSE Raise("AttributeError")

\* Seq(sorted(self._iterable, key=key, reverse=reverse))
sort(key, reverse) ==
    /\ Building /\ IntElems(chain)
    /\ IF isSeq
       THEN LET d == Drain(Iter(chain), Len(Iter(chain))) IN
            Return(<<"sort", key, reverse>>,
                   Append(d.c, ListObj(Sorted(d.items, key, reverse))), d.n)
       ELSE Raise("AttributeError")

\* Seq(reversed(list(self._iterable)))
reverse ==
    /\ Building
    /\ IF isSeq
       THEN LET d == Drain(Iter(chain), Len(Iter(chain))) IN
            Return(<<"reverse">>, Append(d.c, ReversedObj(d.items)), d.n)
       ELSE Raise("AttributeError")

\* Seq(zip(*self._iterable)): the unpacking pulls every element, and zip
\* raises TypeError for an element that is not iterable.
zip_from_each ==
    /\ Building
    /\ IF isSeq
       THEN LET d == Drain(Iter(chain), Len(Iter(chain))) IN
            IF \A i \in 1..Len(d.items) : d.items[i].ty = "tuple"
            THEN Return(<<"zip_from_each">>, Append(d.c, ZipColsObj(d.items)),
                        d.n)
            ELSE /\ chain' = d.c
                 /\ pulled' = pulled + d.n
                 /\ err' = "TypeError"
                 /\ UNCHANGED <<isSeq, built, hist, callervars>>
       ELSE Raise("AttributeError")

\* return itertools.cycle(self._iterable): the iterator itself, not a Seq
cycle ==
    /\ Building
    /\ IF isSeq
       THEN /\ chain' = Append(Iter(chain), CycleObj)
            /\ isSeq' = FALSE
            /\ built' = Append(built, <<"cycle">>)
            /\ UNCHANGED <<pulled, hist, err, callervars>>
       ELSE Raise("AttributeError")


(***************************************************************************)
(* Terminals.  Each is computed on the chain c of the Seq and gives the    *)
(* chain after the call, the elements n pulled from the root source, the   *)
(* values ev handed to functions of the caller, the error raised ("" for   *)
(* none) and the value returned.                                           *)
(***************************************************************************)
Outcome(c, n, ev, e, res) ==
    [c |-> c, n |-> n, ev |-> ev, err |-> e, res |-> res]
PyList(items) == [ty |-> "list", items |-> items]

iterable_or_map(c, fn) ==
    IF fn = "" THEN c ELSE Append(Iter(c), MapObj(fn))

iterable_or_filter(c, fn) ==
    IF fn = "" THEN c ELSE Append(Iter(c), FilterObj(fn))

\* next(iter(self._iterable_or_filter(predicate)))
First(c, fn) ==
    LET c1 == Iter(iterable_or_filter(c, fn))
        r == PullAt(c1, Len(c1))
    IN Outcome(r.c, r.n, r.ev, IF r.ok THEN "" ELSE "StopIteration", r.v)

\* next(iter(self._iterable_or_filter(predicate)), default)
FirstOrDefault(c, fn, default) ==
    LET c1 == Iter(iterable_or_filter(c, fn))
        r == PullAt(c1, Len(c1))
    IN Outcome(r.c, r.n, r.ev, "", IF r.ok THEN r.v ELSE default)

\* self.first_or_default(Op.identity)
FirstNotNone(c) == FirstOrDefault(c, "identity", None)

\* functools.reduce(function, iterable): TypeError on an empty iterable
ReduceNoInit(fn, c) ==
    LET c1 == Iter(c)
        d == Drain(c1, Len(c1))
    IN IF d.items = <<>> THEN Outcome(d.c, d.n, d.ev, "TypeError", None)
       ELSE Outcome(d.c, d.n, d.ev, "",
                    Reduce(fn, Head(d.items), Tail(d.items)))

\* functools.reduce(function, iterable, initial)
ReduceInit(fn, c, initial) ==
    LET c1 == Iter(c)
        d == Drain(c1, Len(c1))
    IN Outcome(d.c, d.n, d.ev, "", Reduce(fn, initial, d.items))

\* functools.reduce(Op.rhs, self._iterable_or_filter(predicate))
Last(c, fn) == ReduceNoInit(Fn2("rhs"), iterable_or_filter(c, fn))

\* sum(1 for i in self._iterable_or_filter(predicate))
Count(c, fn) ==
    LET c1 == Iter(iterable_or_filter(c, fn))
        d == Drain(c1, Len(c1))
    IN Outcome(d.c, d.n, d.ev, "", I(Len(d.items)))

\* The built-in min(iterable) and max(iterable): the first least or greatest
\* element, ValueError on an empty iterable.
RECURSIVE Extreme(_, _, _)
Extreme(least, best, items) ==
    IF items = <<>> THEN best
    ELSE LET x == Head(items)
             better == IF least THEN x.n < best.n ELSE x.n > best.n
         IN Extreme(least, IF better THEN x ELSE best, Tail(items))

BuiltinExtreme(least, c) ==
    LET c1 == Iter(c)
        d == Drain(c1, Len(c1))
    IN IF d.items = <<>> THEN Outcome(d.c, d.n, d.ev, "ValueError", None)
       ELSE Outcome(d.c, d.n, d.ev, "",
                    Extreme(least, Head(d.items), Tail(d.items)))

Min(c, key) ==
    IF key = "" THEN BuiltinExtreme(TRUE, c)
    ELSE ReduceNoInit(compare_and_choose("le", key), c)

Max(c, key) ==
    IF key = "" THEN BuiltinExtreme(FALSE, c)
    ELSE ReduceNoInit(compare_and_choose("ge", key), c)

\* The built-in all(iterable) and any(iterable): pull until the first
\* element whose truth value is `until`.
\* Mutant of Scan: the element after the deciding one is pulled as well.
RECURSIVE ScanLookahead(_, _, _)
ScanLookahead(until, c, k) ==
    LET r == PullAt(c, k) IN
    IF ~r.ok THEN Outcome(r.c, r.n, r.ev, "", B(~until))
    ELSE IF Truthy(r.v) = until
    THEN LET r2 == PullAt(r.c, k) IN
         Outcome(r2.c, r.n + r2.n, r.ev \o r2.ev, "", B(until))
    ELSE LET s == ScanLookahead(until, r.c, k) IN
         Outcome(s.c, r.n + s.n, r.ev \o s.ev, "", s.res)

RECURSIVE Scan(_, _, _)
Scan(until, c, k) ==
    LET r == PullAt(c, k) IN
    IF ~r.ok THEN Outcome(r.c, r.n, r.ev, "", B(~until))
    ELSE IF Truthy(r.v) = until THEN Outcome(r.c, r.n, r.ev, "", B(until))
    ELSE LET s == Scan(until, r.c, k) IN
         Outcome(s.c, r.n + s.n, r.ev \o s.ev, "", s.res)

AllOf(c, fn) ==
    LET c1 == Iter(iterable_or_map(c, fn)) IN Scan(FALSE, c1, Len(c1))

AnyOf(c, fn) ==
    LET c1 == Iter(iterable_or_map(c, fn)) IN Scan(TRUE, c1, Len(c1))

Fold(c, fn) == ReduceNoInit(fn, c)

FoldLeft(c, start, fn) == ReduceInit(fn, c, start)

\* list(self._iterable)
ToList(c) ==
    LET c1 == Iter(c)
        d == Drain(c1, Len(c1))
    IN Outcome(d.c, d.n, d.ev, "", PyList(d.items))

(***************************************************************************)
(* A terminal call on the Seq in hand.  The iterators the call made for    *)
(* itself are dropped when it returns; the Seq keeps its own chain, in the *)
(* state the call left it.                                                 *)
(***************************************************************************)
Calling == err = "" /\ groups = <<>> /\ Len(hist) < MaxCalls

Finish(op, fn, arg, r) ==
    /\ chain' = SubSeq(r.c, 1, Len(chain))
    /\ pulled' = pulled + r.n
    /\ hist' = Append(hist, [op |-> op, fn |-> fn, arg |-> arg,
                             before |-> chain, n |-> r.n, ev |-> r.ev,
                             err |-> r.err, res |-> r.res])
    /\ UNCHANGED <<isSeq, built, err, callervars>>

Terminal(op, fn, arg, r) ==
    /\ Calling
    /\ IF isSeq THEN Finish(op, fn, arg, r) ELSE Raise("AttributeError")

first(fn) == Terminal("first", fn, None, First(chain, fn))
first_or_default(fn, default) ==
    Terminal("first_or_default", fn, default, FirstOrDefault(chain, fn, default))
first_not_none == Terminal("first_not_none", "", None, FirstNotNone(chain))
last(fn) == Terminal("last", fn, None, Last(chain, fn))
count(fn) == Terminal("count", fn, None, Count(chain, fn))
min(key) == Terminal("min", key, None, Min(chain, key))
max(key) == Terminal("max", key, None, Max(chain, key))
all(fn) == Terminal("all", fn, None, AllOf(chain, fn))
any(fn) == Terminal("any", fn, None, AnyOf(chain, fn))
fold(fn) == Terminal("fold", fn, None, Fold(chain, Fn2(fn)))
fold_left(start, fn) ==
    Terminal("fold_left", fn, start, FoldLeft(chain, start, Fn2(fn)))
tolist == Terminal("tolist", "", None, ToList(chain))

\* Mutant of persist: the Seq returned wraps an iterator over the list
persist_iterator ==
    /\ Calling
    /\ IF isSeq
       THEN LET r == ToList(chain) IN
            /\ chain' = Append(r.c, ListIter(r.res.items, FALSE))
            /\ pulled' = pulled + r.n
            /\ hist' = Append(hist, [op |-> "persist", fn |-> "", arg |-> None,
                                     before |-> chain, n |-> r.n, ev |-> r.ev,
                                     err |-> "", res |-> r.res])
            /\ UNCHANGED <<isSeq, built, err, callervars>>
       ELSE Raise("AttributeError")

\* Seq(list(self._iterable)): the Seq in hand is now the one returned
persist ==
    /\ Calling
    /\ IF isSeq
       THEN LET r == ToList(chain) IN
            /\ chain' = Append(r.c, ListObj(r.res.items))
            /\ pulled' = pulled + r.n
            /\ hist' = Append(hist, [op |-> "persist", fn |-> "", arg |-> None,
                                     before |-> chain, n |-> r.n, ev |-> r.ev,
                                     err |-> "", res |-> r.res])
            /\ UNCHANGED <<isSeq, built, err, callervars>>
       ELSE Raise("AttributeError")

(***************************************************************************)
(* Spec: any chain of transformations on a finite source, then tolist.     *)
(***************************************************************************)
Others == {<<I(0)>>, <<I(1), I(2)>>}

Init == InitLib(Sources)

Next ==
    \/ \E fn \in {"inc", "mod2"} : map(fn)
    \/ \E fn \in {"ge1", "even"} : filter(fn)
    \/ \E a \in {<<0, 2, 1>>, <<1, -1, 2>>} : slice(a[1], a[2], a[3])
    \/ \E n \in 1..2 : drop(n)
    \/ \E n \in 0..2 : take(n)
    \/ \E fn \in {"lt2", "ge1"} : take_while(fn)
    \/ \E key \in {"identity", "mod2"} : group_by(key, "")
    \/ \E other \in Others : zip(other)
    \/ zip_from_each
    \/ \E key \in {"", "neg"}, rev \in BOOLEAN : sort(key, rev)
    \/ distinct
    \/ reverse
    \/ \E other \in Others : concat(other)
    \/ enumerate(0)
    \/ cycle
    \/ tolist

Spec == Init /\ [][Next]_vars


\* C1: constructing a Seq or calling any transformation on it pulls no
\* element from the source: as long as no terminal has been called (and
\* every transformation call has returned), the source has handed out 0
\* elements.
C1_TransformationsPullNothing == (hist = <<>> /\ err = "") => pulled = 0

\* The repetition of items, n elements long
Repetition(items, n) == [i \in 1..n |-> items[((i - 1) % Len(items)) + 1]]

\* C9: cycle() returns a new Seq, consuming nothing at call time, on which
\* further Seq operations can be chained: after cycle() the object in hand
\* is a Seq, no later call raises AttributeError, and
\* cycle().take(n).tolist() is the first n elements of the repetition of
\* the source.
C9_CycleReturnsSeq ==
    (\E i \in 1..Len(built) : Called[i] = "cycle") =>
        /\ isSeq
        /\ err # "AttributeError"
        /\ pulled = 0 \/ hist # <<>>
        /\ \A i \in 1..Len(hist) :
              (Called = <<"cycle", "take">> /\ hist[i].op = "tolist"
                  /\ i = 1 /\ chain[1].items # <<>>)
              => hist[i].res.items = Repetition(chain[1].items, Top(chain).stop)

(***************************************************************************)
(* SpecReuse: several terminal calls, one after the other, on one Seq      *)
(* that wraps a source directly or through map.                            *)
(***************************************************************************)
InitReuse == InitLib(Sources)

NextReuse ==
    \/ map("inc")
    \/ first("")
    \/ tolist
    \/ count("")
    \/ \E start \in {I(0), I(1)} : fold_left(start, "sub")
    \/ persist

SpecReuse == InitReuse /\ [][NextReuse]_vars

\* What a chain of list, list iterator and map objects has left to give:
\* the elements from its position on, mapped.
RECURSIVE Left(_, _)
Left(c, k) ==
    CASE c[k].op = "list" -> c[k].items
      [] c[k].op = "list_iterator" ->
            SubSeq(c[k].items, c[k].pos + 1, Len(c[k].items))
      [] c[k].op = "map" ->
            LET l == Left(c, k - 1) IN
            [i \in 1..Len(l) |-> Apply(c[k].fn, l[i])]

FullTerminals == {"tolist", "count", "fold_left"}

\* The value a full-consumption terminal h gives on the elements items
OnItems(h, items) ==
    CASE h.op = "tolist" -> PyList(items)
      [] h.op = "count" -> I(Len(items))
      [] h.op = "fold_left" -> Reduce(Fn2(h.fn), h.arg, items)

\* C3: wrapping grants no repeatability and exhaustion is no error.  Once a
\* terminal has fully consumed a Seq whose iterable is single-pass, every
\* later tolist, count and fold_left on that Seq raises nothing and gives
\* [], 0 and the seed; on a Seq whose iterable is a list every such call
\* starts again at the first element.
C3_ExhaustedIsEmpty ==
    \A i \in 1..Len(hist) :
        LET h == hist[i] IN
        h.op \in FullTerminals =>
            /\ h.err = ""
            /\ (Top(h.before).op # "list"
                  /\ \E j \in 1..(i - 1) : hist[j].op \in FullTerminals)
               => /\ h.res = OnItems(h, <<>>)
                  /\ h.n = 0
            /\ Top(h.before).op = "list"
               => h.res = OnItems(h, Top(h.before).items)

C3_Witness ==
    /\ Len(hist) >= 2
    /\ hist[1].op = "tolist" /\ Len(hist[1].res.items) >= 2
    /\ Top(hist[1].before).op = "list_iterator"
    /\ hist[2].op = "fold_left" /\ hist[2].res = I(1)

\* C4: persist() materializes what the source has left into a repeatable
\* sequence: the list it caches is the elements the source had left when
\* persist() was called, and every later iteration of the returned Seq,
\* however many, yields that same sequence.
C4_PersistRepeatable ==
    \A i \in 1..Len(hist) :
        hist[i].op = "persist" =>
            /\ hist[i].res.items = Left(hist[i].before, Len(hist[i].before))
            /\ \A j \in (i + 1)..Len(hist) :
                  hist[j].op \in FullTerminals =>
                      /\ hist[j].err = ""
                      /\ hist[j].res = OnItems(hist[j], hist[i].res.items)

C4_Witness ==
    /\ Len(hist) = 3
    /\ Top(hist[1].before).op = "map"
    /\ hist[1].op = "persist" /\ Len(hist[1].res.items) >= 2
    /\ hist[2].op = "tolist" /\ hist[3].op = "tolist"
    /\ hist[3].res.items = hist[1].res.items


(***************************************************************************)
(* SpecShort: the short-circuiting operations, on finite single-pass       *)
(* sources and on the infinite source Seq.from_count(start, step).  A call *)
(* that would never return is not made.                                    *)
(***************************************************************************)
Horizon == 3     \* how far ahead an infinite source is searched for a hit

CountSource(start, step) == <<CountObj(start, step)>>
ShortSources ==
    {IterSource(l) : l \in IntLists}
        \cup {CountSource(a, b) : a \in 0..MaxVal, b \in 1..2}

\* The i-th element (from 0) the root source of c has left to give, and
\* how many it has left (Horizon + 1 standing for "without end").
ElemAt(c, i) ==
    CASE c[1].op = "count" -> I(c[1].n + i * c[1].step)
      [] c[1].op = "list_iterator" -> c[1].items[c[1].pos + 1 + i]
      [] c[1].op = "list" -> c[1].items[i + 1]
Avail(c) ==
    CASE c[1].op = "count" -> Horizon + 1
      [] c[1].op = "list_iterator" -> Len(c[1].items) - c[1].pos
      [] c[1].op = "list" -> Len(c[1].items)

Holds(fn, v) == IF fn = "" THEN Truthy(v) ELSE Truthy(Apply(fn, v))

\* The position of the first element left whose fn-value has truth value
\* want, -1 when there is none within reach.
Hits(c, fn, want) ==
    {i \in 0..(Avail(c) - 1) : Holds(fn, ElemAt(c, i)) = want}
FirstHit(c, fn, want) ==
    IF Hits(c, fn, want) = {} THEN -1
    ELSE CHOOSE i \in Hits(c, fn, want) : \A j \in Hits(c, fn, want) : i <= j

\* The chain comes to an end: its root is finite, or a takewhile on it has
\* stopped or will meet an element that fails its predicate.
Ends(c) ==
    \/ c[1].op # "count"
    \/ \E k \in 2..Len(c) :
          c[k].op = "takewhile"
              /\ (c[k].stop \/ FirstHit(c, c[k].fn, FALSE) # -1)

InitShort == InitLib(ShortSources)

NextShort ==
    \/ \E fn \in {"lt2", "even"} : take_while(fn)
    \/ \E fn \in {"ge2", "even"} :
          (Ends(chain) \/ FirstHit(chain, fn, TRUE) # -1) /\ first(fn)
    \/ \E fn \in {"ge2", "even"} :
          (Ends(chain) \/ FirstHit(chain, fn, TRUE) # -1) /\ any(fn)
    \/ \E fn \in {"lt2", "ge1"} :
          (Ends(chain) \/ FirstHit(chain, fn, FALSE) # -1) /\ all(fn)
    \/ Ends(chain) /\ tolist

SpecShort == InitShort /\ [][NextShort]_vars

\* The first n elements the root source of c has left
Prefix(c, n) == [i \in 1..n |-> ElemAt(c, i - 1)]

\* C2: first(p), any(p), all(p) and take_while(p) stop pulling as soon as
\* their result is determined.  When the source still holds an element
\* that decides the call (the first satisfying p for first and any, the
\* first failing p for all and take_while), the call returns having pulled
\* the elements up to and including that one and no more, having applied p
\* to exactly those, also on an infinite source; and a take_while that has
\* met its failing element never pulls again.
C2_ShortCircuit ==
    \A i \in 1..Len(hist) :
        LET h == hist[i]
            c == h.before
            want == h.op \in {"first", "any"}
            at == FirstHit(c, h.fn, want)
            tw == FirstHit(c, Top(c).fn, FALSE)
        IN /\ (Len(c) = 1 /\ h.op \in {"first", "any", "all"} /\ at # -1)
              => /\ h.n = at + 1
                 /\ h.ev = Prefix(c, at + 1)
                 /\ h.err = ""
                 /\ h.res = IF h.op = "first" THEN ElemAt(c, at) ELSE B(want)
           /\ (Len(c) = 2 /\ h.op = "tolist" /\ ~c[2].stop /\ tw # -1)
              => /\ h.n = tw + 1
                 /\ h.ev = Prefix(c, tw + 1)
                 /\ h.res = PyList(Prefix(c, tw))
           /\ (Len(c) = 2 /\ c[2].stop) => h.n = 0

\* first(p) has returned from an infinite source after skipping elements
C2_Witness ==
    /\ Len(hist) >= 2
    /\ chain[1].op = "count"
    /\ hist[1].op = "first" /\ hist[1].n >= 2
    /\ hist[2].op = "all" /\ hist[2].n >= 1


(***************************************************************************)
(* SpecTerm: the terminals that pick one element or reduce, called on a    *)
(* Seq that wraps a source directly.  The sources hold integers, pairs,    *)
(* or Python values of several types, None and falsy ones among them.      *)
(***************************************************************************)
MaxTermCalls == 2    \* terminal calls made on one Seq in SpecTerm
MaxTag == 1          \* pairs are (k, t) with k, t in 0..MaxTag

Pairs == {T(<<I(k), I(t)>>) : k \in 0..MaxTag, t \in 0..MaxTag}
PyVals == Ints \cup {None, B(FALSE), B(TRUE), T(<<>>), T(<<I(0)>>)}
TermLists ==
    IntLists \cup ListsUpTo(Pairs, MaxLen) \cup ListsUpTo(PyVals, MaxLen)
TermSources ==
    {ListSource(l) : l \in TermLists} \cup {IterSource(l) : l \in TermLists}

\* The elements of the root source are all of type ty
ItemsAre(ty) ==
    \A i \in 1..Len(chain[1].items) : chain[1].items[i].ty = ty

ItemsArePairs ==
    \A i \in 1..Len(chain[1].items) : chain[1].items[i] \in Pairs

InitTerm == InitLib(TermSources)

TermCall == Len(hist) < MaxTermCalls

NextTerm ==
    \/ \E key \in {"mod2", "const"} : TermCall /\ ItemsAre("int") /\ min(key)
    \/ \E key \in {"", "mod2", "neg"} : TermCall /\ ItemsAre("int") /\ max(key)
    \/ TermCall /\ ItemsArePairs /\ min("item0")
    \/ TermCall /\ ItemsArePairs /\ max("item0")
    \/ \E fn \in {"", "ge2"} : TermCall /\ ItemsAre("int") /\ first(fn)
    \/ \E fn \in {"", "ge2"} : TermCall /\ ItemsAre("int") /\ last(fn)
    \/ TermCall /\ ItemsAre("int") /\ fold("sub")
    \/ TermCall /\ first_not_none
    \/ TermCall /\ first_or_default("is_not_none", None)

SpecTerm == InitTerm /\ [][NextTerm]_vars

\* The positions of the elements of items whose key is least (greatest)
KeyAt(key, items, i) == IF key = "" THEN items[i].n ELSE Apply(key, items[i]).n
Extremes(least, key, items) ==
    {i \in 1..Len(items) :
        \A j \in 1..Len(items) :
            IF least THEN KeyAt(key, items, i) <= KeyAt(key, items, j)
            ELSE KeyAt(key, items, i) >= KeyAt(key, items, j)}
Least(S) == CHOOSE i \in S : \A j \in S : i <= j

\* C6: min(key) and max(key) break ties in favour of the earliest element:
\* on a non-empty source min(key) returns the first element in source order
\* whose key is minimal, and max(key) the first whose key is maximal.
C6_FirstExtremeWins ==
    \A i \in 1..Len(hist) :
        LET h == hist[i]
            items == Left(h.before, Len(h.before))
        IN (h.op \in {"min", "max"} /\ items # <<>>) =>
              /\ h.err = ""
              /\ h.res = items[Least(Extremes(h.op = "min", h.fn, items))]

\* [(0,0),(0,1)]: min by the first component gives (0,0), and so does max
C6_Witness ==
    /\ Len(hist) = 2
    /\ chain[1].items = <<T(<<I(0), I(0)>>), T(<<I(0), I(1)>>)>>
    /\ hist[1].op = "min" /\ hist[1].res = T(<<I(0), I(0)>>)
    /\ hist[2].op = "max" /\ hist[2].res = T(<<I(0), I(0)>>)

\* The call h needed an element and the Seq had none to give it
FoundNone(h) ==
    LET items == Left(h.before, Len(h.before)) IN
    \/ h.op \in {"first", "last"}
          /\ IF h.fn = "" THEN items = <<>>
             ELSE \A k \in 1..Len(items) : ~Holds(h.fn, items[k])
    \/ h.op = "fold" /\ items = <<>>

\* C7: first(p), last(p) and fold(f) fail with one and the same error kind
\* (EmptySequence) when there is no element for them: such a call returns
\* no value and raises an error, and any two such calls raise the same kind.
C7_OneErrorKind ==
    \A i, j \in 1..Len(hist) :
        (FoundNone(hist[i]) /\ FoundNone(hist[j])) =>
            /\ hist[i].err # ""
            /\ hist[i].res = None
            /\ hist[i].err = hist[j].err

\* C8: first_not_none() returns the earliest element x of the source with
\* x is not None, whatever its truth value, and None only when every
\* element is None or the source is empty.
C8_FirstNotNone ==
    \A i \in 1..Len(hist) :
        LET h == hist[i]
            items == Left(h.before, Len(h.before))
            notNone == {k \in 1..Len(items) : items[k].ty # "None"}
        IN h.op = "first_not_none" =>
              /\ h.err = ""
              /\ h.res = IF notNone = {} THEN None ELSE items[Least(notNone)]


(***************************************************************************)
(* SpecGroup: a caller's loop over seq.group_by(key, function).  Each turn *)
(* of the loop takes the next (key, subsequence) pair from the iterator of *)
(* the Seq; the caller may call tolist() on any subsequence it holds, at   *)
(* any time.                                                               *)
(***************************************************************************)
MaxGroupLen == 4     \* longest source list in SpecGroup

GroupSources ==
    {ListSource(l) : l \in ListsUpTo(Ints, MaxGroupLen)}
        \cup {IterSource(l) : l \in ListsUpTo(Ints, MaxGroupLen)}

InitGroup == InitLib(GroupSources)

\* next(iter(seq)) in the caller's loop
IterNext ==
    /\ err = "" /\ Called = <<"group_by">> /\ ~outerDone
    /\ LET r == PullAt(chain, Len(chain)) IN
       /\ chain' = r.c
       /\ pulled' = pulled + r.n
       /\ IF r.ok
          THEN /\ groups' = Append(groups,
                      [key |-> r.v.items[1], seq |-> r.v.items[2],
                       read |-> FALSE, current |-> FALSE, items |-> <<>>])
               /\ UNCHANGED outerDone
          ELSE /\ outerDone' = TRUE
               /\ UNCHANGED groups
    /\ UNCHANGED <<isSeq, built, hist, err, pc, data, plan, instructions,
                   state, distance>>

\* subsequence.tolist() on the i-th group the loop was given; current
\* records whether the loop had not yet moved on from that group.
GroupToList(i) ==
    /\ err = "" /\ i \in 1..Len(groups) /\ ~groups[i].read
    /\ LET d == GrouperDrain(chain, groups[i].seq) IN
       /\ chain' = d.c
       /\ pulled' = pulled + d.n
       /\ groups' = [groups EXCEPT ![i].read = TRUE,
                                   ![i].current = (i = Len(groups) /\ ~outerDone),
                                   ![i].items = d.items]
    /\ UNCHANGED <<isSeq, built, hist, err, outerDone, pc, data, plan,
                   instructions, state, distance>>

NextGroup ==
    \/ \E key \in {"identity", "mod2"}, fn \in {"", "inc"} :
          Len(built) = 0 /\ group_by(key, fn)
    \/ IterNext
    \/ \E i \in 1..MaxGroupLen : GroupToList(i)

SpecGroup == InitGroup /\ [][NextGroup]_vars

\* The maximal runs of consecutive elements of items with equal key, each
\* with its key and its elements (mapped through fn when one is given).
RECURSIVE Runs(_, _, _)
Runs(items, key, fn) ==
    IF items = <<>> THEN <<>>
    ELSE LET rest == Runs(Tail(items), key, fn)
             x == Head(items)
             y == IF fn = "" THEN x ELSE Apply(fn, x)
         IN IF Len(items) > 1 /\ Apply(key, x) = Apply(key, items[2])
            THEN <<[key |-> Apply(key, x),
                    items |-> <<y>> \o Head(rest).items]>> \o Tail(rest)
            ELSE <<[key |-> Apply(key, x), items |-> <<y>>]>> \o rest

\* C5: group_by(key) groups consecutive runs, not globally.  The loop is
\* given one (key, subsequence) pair per maximal run of consecutive
\* elements with equal key, in input order (so a key that comes back after
\* another one starts a new group), and a subsequence read while the loop
\* is at its group holds exactly the elements of its run, in order, mapped
\* through the function when one was given.
C5_GroupsAreRuns ==
    Called = <<"group_by">> =>
        LET runs == Runs(chain[1].items, built[1][2], built[1][3]) IN
        /\ Len(groups) <= Len(runs)
        /\ outerDone => Len(groups) = Len(runs)
        /\ \A i \in 1..Len(groups) :
              /\ groups[i].key = runs[i].key
              /\ (groups[i].read /\ groups[i].current)
                 => groups[i].items = runs[i].items

\* [1,1,2,1] with the identity key: (1,[1,1]), (2,[2]), (1,[1])
C5_Witness ==
    /\ chain[1].items = <<I(1), I(1), I(2), I(1)>>
    /\ outerDone
    /\ Len(groups) = 3
    /\ \A i \in 1..3 : groups[i].read /\ groups[i].current
    /\ groups[1].key = I(1) /\ groups[1].items = <<I(1), I(1)>>
    /\ groups[2].key = I(2) /\ groups[2].items = <<I(2)>>
    /\ groups[3].key = I(1) /\ groups[3].items = <<I(1)>>


\* C11: a group's subsequence shares the one pull position of the grouped
\* source with the outer sequence.  Every element of the source is pulled
\* at most once, whoever pulls it, and all of them once the outer sequence
\* has ended; a subsequence read while the outer sequence is still at its
\* group yields the elements of its run; a subsequence first read after the
\* outer sequence was advanced past its group yields no elements; and no
\* error is raised.
C11_GroupsShareThePosition ==
    Called = <<"group_by">> =>
        /\ err = ""
        /\ pulled <= Len(chain[1].items)
        /\ outerDone => pulled = Len(chain[1].items)
        /\ \A i \in 1..Len(groups) :
              groups[i].read =>
                 IF groups[i].current
                 THEN groups[i].items =
                         Runs(chain[1].items, built[1][2], built[1][3])[i].items
                 ELSE groups[i].items = <<>>

\* [1,1,2,1] with the identity key: the first group was read in its turn,
\* the second and the third only after the outer sequence had ended (and
\* the third has the key the first one had).
C11_Witness ==
    /\ chain[1].items = <<I(1), I(1), I(2), I(1)>>
    /\ Called = <<"group_by">> /\ built[1][2] = "identity"
    /\ outerDone
    /\ Len(groups) = 3
    /\ \A i \in 1..3 : groups[i].read
    /\ groups[1].current /\ groups[1].items = <<I(1), I(1)>>
    /\ ~groups[2].current /\ groups[2].items = <<>>
    /\ ~groups[3].current /\ groups[3].items = <<>>
    /\ pulled = 4

(***************************************************************************)
(* SpecDay1: day1(data).  The argument is written from a list of           *)
(* (turn, distance) instructions; day1 parses it with Seq.map and tolist,  *)
(* folds move over the instructions, one instruction per step of the       *)
(* fold, and prints the distance.                                          *)
(***************************************************************************)
MaxInstr == 3        \* most instructions in one argument
Dists == {0, 2, 3, 12}

ORIENTATIONS == <<<<0, 1>>, <<1, 0>>, <<0, -1>>, <<-1, 0>>>>

InstrLists ==
    ListsUpTo({<<t, d>> : t \in {"L", "R"}, d \in Dists}, MaxInstr) \ {<<>>}

\* The text of an instruction list: "R2, L3"
RECURSIVE Digits(_)
Digits(n) ==
    IF n < 10 THEN <<DigitChars[n + 1]>>
    ELSE Digits(n \div 10) \o <<DigitChars[(n % 10) + 1]>>
RECURSIVE Text(_)
Text(ins) ==
    LET one == <<ins[1][1]>> \o Digits(ins[1][2]) IN
    IF Len(ins) = 1 THEN one ELSE one \o <<",", " ">> \o Text(Tail(ins))

\* Mutant of move: the rotations of L and R are exchanged
move_mirrored(st, instruction) ==
    LET position == st[1]
        orientation == st[2]
        direction == instruction.items[1]
        dist == instruction.items[2].n
        rotation == IF direction = Str(<<"L">>) THEN 1 ELSE 3
        index == CHOOSE i \in 0..3 : ORIENTATIONS[i + 1] = orientation
        new_orientation == ORIENTATIONS[((index + rotation) % 4) + 1]
        new_position == <<position[1] + new_orientation[1] * dist,
                          position[2] + new_orientation[2] * dist>>
    IN <<new_position, new_orientation>>

\* move(state, instruction)
move(st, instruction) ==
    LET position == st[1]
        orientation == st[2]
        direction == instruction.items[1]
        dist == instruction.items[2].n
        rotation == IF direction = Str(<<"L">>) THEN 3 ELSE 1
        index == CHOOSE i \in 0..3 : ORIENTATIONS[i + 1] = orientation
        new_orientation == ORIENTATIONS[((index + rotation) % 4) + 1]
        new_position == <<position[1] + new_orientation[1] * dist,
                          position[2] + new_orientation[2] * dist>>
    IN <<new_position, new_orientation>>

Abs(n) == IF n < 0 THEN 0 - n ELSE n

InitDay1 ==
    /\ plan \in InstrLists
    /\ data = Text(plan)
    /\ pc = "parse"
    /\ chain = <<>>
    /\ isSeq = TRUE
    /\ pulled = 0
    /\ built = <<>>
    /\ hist = <<>>
    /\ err = ""
    /\ groups = <<>>
    /\ outerDone = FALSE
    /\ instructions = <<>>
    /\ state = <<>>
    /\ distance = -1

\* instructions = Seq(data.split(', ')).map(lambda ...).tolist(), then
\* initial_state and the start of Seq(instructions).fold_left
Parse ==
    /\ pc = "parse"
    /\ LET tokens == ListSource(Split(data))
           r == ToList(Append(Iter(tokens), MapObj("instruction")))
       IN /\ instructions' = r.res.items
          /\ chain' = Iter(ListSource(r.res.items))
    /\ state' = <<<<0, 0>>, <<0, 1>>>>
    /\ pc' = "fold"
    /\ UNCHANGED <<isSeq, pulled, built, hist, err, groups, outerDone, data,
                   plan, distance>>

\* One step of functools.reduce(move, instructions, initial_state)
Move ==
    /\ pc = "fold"
    /\ LET r == PullAt(chain, Len(chain)) IN
       /\ chain' = r.c
       /\ IF r.ok
          THEN state' = move(state, r.v) /\ pc' = pc
          ELSE state' = state /\ pc' = "print"
    /\ UNCHANGED <<isSeq, pulled, built, hist, err, groups, outerDone, data,
                   plan, instructions, distance>>

\* print('distance {0}'.format(abs(position[0]) + abs(position[1])))
PrintDistance ==
    /\ pc = "print"
    /\ distance' = Abs(state[1][1]) + Abs(state[1][2])
    /\ pc' = "done"
    /\ UNCHANGED <<libvars, groups, outerDone, data, plan, instructions,
                   state>>

NextDay1 == Parse \/ Move \/ PrintDistance

SpecDay1 == InitDay1 /\ [][NextDay1]_vars

\* The walk as the claim tells it: R turns the heading clockwise, L
\* counter-clockwise, then the position advances along the new heading.
RECURSIVE Walk(_, _, _)
Walk(position, heading, ins) ==
    IF ins = <<>> THEN <<position, heading>>
    ELSE LET h == IF ins[1][1] = "R" THEN <<heading[2], 0 - heading[1]>>
                  ELSE <<0 - heading[2], heading[1]>>
         IN Walk(<<position[1] + h[1] * ins[1][2],
                   position[2] + h[2] * ins[1][2]>>, h, Tail(ins))

\* C10: the day1 walk.  From position (0,0) and heading (0,1), after k
\* instructions of the fold the state is where rotating (R clockwise, L
\* counter-clockwise) and then advancing takes the first k instructions
\* of the argument; the heading is always one of the four unit vectors;
\* and the distance printed is |x|+|y| of the final position.
C10_Day1Walk ==
    pc \in {"fold", "print", "done"} =>
        LET done == Top(chain).pos
            final == Walk(<<0, 0>>, <<0, 1>>, plan)
        IN /\ state = Walk(<<0, 0>>, <<0, 1>>, SubSeq(plan, 1, done))
           /\ state[2] \in {<<0, 1>>, <<1, 0>>, <<0, -1>>, <<-1, 0>>}
           /\ pc \in {"print", "done"} => state = final
           /\ pc = "done" => distance = Abs(final[1][1]) + Abs(final[1][2])

\* "R2, L3" ends at (2,3), distance 5
C10_Witness ==
    /\ data = <<"R", "2", ",", " ", "L", "3">>
    /\ pc = "done"
    /\ state[1] = <<2, 3>>
    /\ distance = 5

=============================================================================
